---- MODULE Spec2Model ----
(***************************************************************************)
(* Model of the DeFi reputation scoring server:                            *)
(*   - DexModel (dex_model.py): the scoring engine, a pure function of a   *)
(*     wallet batch and the current time;                                  *)
(*   - WalletTransactionInput (types.py): the inbound schema;              *)
(*   - KafkaService (kafka_service.py): the consume/score/produce loop,    *)
(*     its counters and its start/stop lifecycle, driven by main.py.       *)
(*                                                                         *)
(* Numbers that are floats in the program are exact rationals here,        *)
(* [n |-> numerator, d |-> denominator], d > 0, in lowest terms.           *)
(***************************************************************************)
EXTENDS Integers, Sequences, FiniteSets, TLC

\* ------------------------------------------------------------------ bounds
\* longest transaction list of a generated batch
MaxTxs == 3
\* messages the input topic delivers in one run
MaxMsgs == 2
\* worker threads start_consumer may create in one run
MaxThreads == 2
\* threads that call start_consumer and stop_consumer concurrently
MaxCallers == 2

\* ------------------------------------------------------- exact arithmetic
Abs(x) == IF x < 0 THEN -x ELSE x

RECURSIVE GCD(_, _)
GCD(a, b) == IF b = 0 THEN a ELSE GCD(b, a % b)

Rat(n, d) ==
    LET g == GCD(Abs(n), Abs(d))
        s == IF d < 0 THEN -1 ELSE 1
    IN  [n |-> s * (n \div g), d |-> s * (d \div g)]

Int2Rat(x) == [n |-> x, d |-> 1]

RAdd(a, b) ==
    LET g == GCD(a.d, b.d)
        l == (a.d \div g) * b.d
    IN  Rat(a.n * (l \div a.d) + b.n * (l \div b.d), l)

RNeg(a) == [n |-> -a.n, d |-> a.d]
RSub(a, b) == RAdd(a, RNeg(b))

RMul(a, b) ==
    LET x == Rat(a.n, b.d)
        y == Rat(b.n, a.d)
    IN  Rat(x.n * y.n, x.d * y.d)

\* division by a non-zero rational
RDiv(a, b) == RMul(a, Rat(b.d, b.n))

RLe(a, b) == a.n * b.d <= b.n * a.d
RLt(a, b) == a.n * b.d < b.n * a.d
RMin(a, b) == IF RLe(a, b) THEN a ELSE b
RMax(a, b) == IF RLe(a, b) THEN b ELSE a

\* --------------------------------------------------------- python helpers
\* dict.get(key, default); a dict is a function on the keys it has
Get(dict, key, default) == IF key \in DOMAIN dict THEN dict[key] ELSE default

\* the empty dict {}
EmptyDict == <<>>

\* None where a string is expected
None == "None"

\* A JSON timestamp value.  k = "int": an integer v that is a valid Unix
\* second count; k = "big": an integer beyond the datetime range (such as
\* 10^18); k = "str": a non-numeric string; k = "none": null or key absent.
NoneTs == [k |-> "none", v |-> 0]

RECURSIVE SumSeq(_)
SumSeq(s) == IF s = <<>> THEN 0 ELSE Head(s) + SumSeq(Tail(s))

RECURSIVE RSumSeq(_)
RSumSeq(s) == IF s = <<>> THEN Int2Rat(0) ELSE RAdd(Head(s), RSumSeq(Tail(s)))

RECURSIVE FlatMap(_, _)
FlatMap(F(_), s) == IF s = <<>> THEN <<>> ELSE F(Head(s)) \o FlatMap(F, Tail(s))

Map(F(_), s) == [i \in 1..Len(s) |-> F(s[i])]

Filter(P(_), s) == SelectSeq(s, P)

Range(s) == {s[i] : i \in 1..Len(s)}

SetMax(S) == CHOOSE x \in S : \A y \in S : y <= x
SetMin(S) == CHOOSE x \in S : \A y \in S : x <= y

SecondsPerDay == 86400

\* ------------------------------------------------------------ dex_model.py
\* A DataFrame: its rows in order and its columns (the union of the keys of
\* the dicts it was built from); a row lacks the columns its dict did not set
\* (pandas stores NaN there).
DataFrame(rows) == [rows |-> rows,
                    columns |-> UNION {DOMAIN rows[i] : i \in 1..Len(rows)}]

df_empty(df) == df.rows = <<>>

\* pd.to_datetime(ts, unit='s', errors='coerce') is NaT unless ts is an
\* integer in the datetime range
IsNaT(ts) == ts.k # "int"

\* the row built from one raw transaction entry (lines 25-47)
tx_row(wallet_address, tx) ==
    LET base == [wallet_address |-> wallet_address,
                 document_id |-> Get(tx, "document_id", None),
                 action |-> Get(tx, "action", None),
                 timestamp |-> Get(tx, "timestamp", NoneTs),
                 protocol |-> Get(tx, "protocol", None),
                 pool_id |-> Get(tx, "poolId", None),
                 pool_name |-> Get(tx, "poolName", None)]
        action == Get(tx, "action", None)
    IN  IF action = "swap" THEN
            LET token_in == Get(tx, "tokenIn", EmptyDict)
                token_out == Get(tx, "tokenOut", EmptyDict)
                ain == Get(token_in, "amountUSD", 0)
                aout == Get(token_out, "amountUSD", 0)
            IN  base @@ [amount_usd |-> IF ain >= aout THEN ain ELSE aout,
                         token_in_symbol |-> Get(token_in, "symbol", None),
                         token_out_symbol |-> Get(token_out, "symbol", None)]
        ELSE IF action \in {"deposit", "withdraw"} THEN
            LET token0 == Get(tx, "token0", EmptyDict)
                token1 == Get(tx, "token1", EmptyDict)
            IN  base @@ [amount_usd |-> Get(token0, "amountUSD", 0)
                                        + Get(token1, "amountUSD", 0),
                         token0_symbol |-> Get(token0, "symbol", None),
                         token1_symbol |-> Get(token1, "symbol", None)]
        ELSE base

preprocess_dex_transactions(wallet_data) ==
    LET wallet_address == Get(wallet_data, "wallet_address", "N/A")
        GroupRows(category_data) ==
            IF Get(category_data, "protocolType", None) # "dexes" THEN <<>>
            ELSE LET txs == Get(category_data, "transactions", <<>>)
                 IN  [i \in 1..Len(txs) |-> tx_row(wallet_address, txs[i])]
        rows == FlatMap(GroupRows, Get(wallet_data, "data", <<>>))
        df == DataFrame(rows)
        Parsed(row) == ~IsNaT(row.timestamp)
    IN  IF ~df_empty(df) /\ "timestamp" \in df.columns
        THEN [rows |-> Filter(Parsed, df.rows),
              columns |-> df.columns \cup {"datetime"}]
        ELSE df

\* df[df['action'] == a]
ByAction(df, a) ==
    LET Is(row) == row.action = a
    IN  [rows |-> Filter(Is, df.rows), columns |-> df.columns]

\* the timestamps of a frame, as seconds
Timestamps(df) == [i \in 1..Len(df.rows) |-> df.rows[i].timestamp.v]

\* series.sum() of amount_usd: NaN cells are skipped
AmountSum(df) ==
    LET Amt(row) == Get(row, "amount_usd", 0)
    IN  SumSeq(Map(Amt, df.rows))

\* series.nunique() of a string column: None is not counted
NUnique(df, col) ==
    Cardinality({Get(df.rows[i], col, None) : i \in 1..Len(df.rows)} \ {None})

\* _calculate_holding_time with "withdraws['timestamp'] >= deposit_time"
calculate_holding_time_ge(deposits, withdraws, current_time) ==
    IF df_empty(deposits) THEN Int2Rat(0)
    ELSE
      LET wts == Range(Timestamps(withdraws))
          Holding(deposit_time) ==
              LET future_withdraws == {w \in wts : w >= deposit_time}
                  holding_time_seconds ==
                      IF future_withdraws # {}
                      THEN SetMin(future_withdraws) - deposit_time
                      ELSE current_time - deposit_time
              IN  Rat(holding_time_seconds, SecondsPerDay)
          holding_times == Map(Holding, Timestamps(deposits))
      IN  RDiv(RSumSeq(holding_times), Int2Rat(Len(holding_times)))

calculate_holding_time(deposits, withdraws, current_time) ==
    IF df_empty(deposits) THEN Int2Rat(0)
    ELSE
      LET wts == Range(Timestamps(withdraws))
          Holding(deposit_time) ==
              LET future_withdraws == {w \in wts : w > deposit_time}
                  holding_time_seconds ==
                      IF future_withdraws # {}
                      THEN SetMin(future_withdraws) - deposit_time
                      ELSE current_time - deposit_time
              IN  Rat(holding_time_seconds, SecondsPerDay)
          holding_times == Map(Holding, Timestamps(deposits))
      IN  RDiv(RSumSeq(holding_times), Int2Rat(Len(holding_times)))

\* Result of a step that may raise: [ok |-> TRUE, val |-> v] or
\* [ok |-> FALSE, error |-> str(e)]
Ok(v) == [ok |-> TRUE, val |-> v]
Raise(e) == [ok |-> FALSE, error |-> e]

KeyErrorAmount == "'amount_usd'"
NoValidTransactions == "No valid DEX transactions found for this wallet."

calculate_lp_features(df, current_time) ==
    LET deposits == ByAction(df, "deposit")
        withdraws == ByAction(df, "withdraw")
        total_deposit_usd == AmountSum(deposits)
        total_withdraw_usd == AmountSum(withdraws)
        ts == Range(Timestamps(df))
    IN  IF "amount_usd" \notin df.columns THEN Raise(KeyErrorAmount)
        ELSE Ok([total_deposit_usd |-> total_deposit_usd,
                 total_withdraw_usd |-> total_withdraw_usd,
                 num_deposits |-> Len(deposits.rows),
                 num_withdraws |-> Len(withdraws.rows),
                 withdraw_ratio |-> IF total_deposit_usd > 0
                                    THEN Rat(total_withdraw_usd, total_deposit_usd)
                                    ELSE Int2Rat(0),
                 avg_hold_time_days |->
                     calculate_holding_time(deposits, withdraws, current_time),
                 account_age_days |->
                     IF ~df_empty(df)
                     THEN Rat(SetMax(ts) - SetMin(ts), SecondsPerDay)
                     ELSE Int2Rat(0),
                 unique_pools |-> NUnique(df, "pool_id")])

calculate_swap_features(df) ==
    LET swaps == ByAction(df, "swap")
        total_swap_volume == AmountSum(swaps)
        num_swaps == Len(swaps.rows)
        tokens_in == {swaps.rows[i].token_in_symbol : i \in 1..num_swaps} \ {None}
        tokens_out == {swaps.rows[i].token_out_symbol : i \in 1..num_swaps} \ {None}
        unique_tokens == tokens_in \cup tokens_out
    IN  IF df_empty(swaps)
        THEN [total_swap_volume |-> 0, num_swaps |-> 0,
              unique_pools_swapped |-> 0,
              avg_swap_size |-> Int2Rat(0), token_diversity |-> 0]
        ELSE [total_swap_volume |-> total_swap_volume,
              num_swaps |-> num_swaps,
              unique_pools_swapped |-> NUnique(swaps, "pool_id"),
              avg_swap_size |-> IF num_swaps > 0
                                THEN Rat(total_swap_volume, num_swaps)
                                ELSE Int2Rat(0),
              token_diversity |-> Cardinality(unique_tokens)]

\* lp_score of _calculate_final_score (lines 133-136)
lp_score(lp_features) ==
    LET volume_score_lp ==
            RMin(RMul(Rat(lp_features.total_deposit_usd, 10000), Int2Rat(300)),
                 Int2Rat(300))
        retention_score ==
            RMax(Int2Rat(0),
                 RMul(RSub(Int2Rat(1), lp_features.withdraw_ratio), Int2Rat(250)))
        holding_score ==
            RMin(RMul(RDiv(lp_features.avg_hold_time_days, Int2Rat(30)),
                      Int2Rat(150)),
                 Int2Rat(150))
    IN  RAdd(RAdd(volume_score_lp, retention_score), holding_score)

\* swap_score of _calculate_final_score (lines 139-142)
swap_score(swap_features) ==
    LET volume_score_swap ==
            RMin(RMul(Rat(swap_features.total_swap_volume, 50000), Int2Rat(250)),
                 Int2Rat(250))
        frequency_score_swap ==
            RMin(Int2Rat(swap_features.num_swaps * 10), Int2Rat(200))
        diversity_score_swap ==
            RMin(Int2Rat(swap_features.token_diversity * 20), Int2Rat(150))
    IN  RAdd(RAdd(volume_score_swap, frequency_score_swap), diversity_score_swap)

calculate_final_score(lp_features, swap_features) ==
    [final_score |-> RAdd(RMul(lp_score(lp_features), Rat(6, 10)),
                          RMul(swap_score(swap_features), Rat(4, 10))),
     all_features |-> lp_features @@ swap_features]

\* _sanitize_features converts numpy numbers to the Python numbers of the
\* same value and leaves every other value as it is
sanitize_features(features) == [key \in DOMAIN features |-> features[key]]

process_wallet(wallet_data, current_time) ==
    LET df == preprocess_dex_transactions(wallet_data)
        lp == calculate_lp_features(df, current_time)
        swap_features == calculate_swap_features(df)
        combined == calculate_final_score(lp.val, swap_features)
        sanitized_features == sanitize_features(combined.all_features)
    IN  IF df_empty(df) THEN Raise(NoValidTransactions)
        ELSE IF ~lp.ok THEN lp
        ELSE Ok([final_score |-> combined.final_score,
                 features |-> sanitized_features
                              @@ [transaction_count |-> Len(df.rows)]])

\* ------------------------------------------------------------------ inputs
Day == SecondsPerDay

IntTs(v) == [k |-> "int", v |-> v]
BigTs == [k |-> "big", v |-> 0]
StrTs == [k |-> "str", v |-> 0]

\* the two pools of the generated entries, with the token pair and the USD
\* amounts of the two legs of an entry in that pool
PoolA == [poolId |-> "0xpoolA", poolName |-> "USDC/WETH",
          sym0 |-> "USDC", sym1 |-> "WETH", usd0 |-> 500, usd1 |-> 500]
PoolB == [poolId |-> "0xpoolB", poolName |-> "USDC/DAI",
          sym0 |-> "USDC", sym1 |-> "DAI", usd0 |-> -30000, usd1 |-> -20000]

\* a raw transaction entry of the inbound JSON, without its timestamp key
EntryNoTs(action, p) ==
    LET common == [document_id |-> "doc", action |-> action,
                   protocol |-> "uniswap_v3",
                   poolId |-> p.poolId, poolName |-> p.poolName]
        t0 == [amountUSD |-> p.usd0, symbol |-> p.sym0]
        t1 == [amountUSD |-> p.usd1, symbol |-> p.sym1]
    IN  IF action = "swap" THEN common @@ [tokenIn |-> t0, tokenOut |-> t1]
        ELSE IF action \in {"deposit", "withdraw"}
             THEN common @@ [token0 |-> t0, token1 |-> t1]
        ELSE common

Entry(action, ts, p) == EntryNoTs(action, p) @@ [timestamp |-> ts]

\* 2023-12-31T00:00:00Z, the first timestamp of the test fixture
Epoch == 1703980800

T1 == IntTs(Epoch)
T2 == IntTs(Epoch + 90 * Day)

\* the current times datetime.now() may return
Nows == {Epoch + 30 * Day, Epoch + 190 * Day}

TxPool ==
    { Entry("deposit", T1, PoolA), Entry("deposit", T2, PoolA),
      Entry("deposit", T1, PoolB),
      Entry("withdraw", T1, PoolA), Entry("withdraw", T2, PoolA),
      Entry("withdraw", T2, PoolB),
      Entry("swap", T1, PoolA), Entry("swap", T2, PoolB),
      Entry("stake", T1, PoolA), Entry("stake", T2, PoolB),
      Entry("deposit", BigTs, PoolA),
      EntryNoTs("swap", PoolA) }

SeqsUpTo(S, n) == UNION {[1..k -> S] : k \in 0..n}

Group(protocolType, txs) == [protocolType |-> protocolType, transactions |-> txs]

Batch(groups) == [wallet_address |-> "0xW", data |-> groups]

Batches ==
    {Batch(<<Group("dexes", txs)>>) : txs \in SeqsUpTo(TxPool, MaxTxs)}
    \cup {Batch(<<Group("lending", txs)>>) : txs \in SeqsUpTo(TxPool, 1)}
    \cup {Batch(<<Group("lending", <<t>>), Group("dexes", txs)>>) :
              t \in {Entry("deposit", T1, PoolA)}, txs \in SeqsUpTo(TxPool, 1)}
    \cup {Batch(<<>>)}

\* ---------------------------------------------------------------- types.py
\* TransactionDetail: document_id: str, action: str, timestamp: int
ValidTransactionDetail(tx) ==
    /\ {"document_id", "action", "timestamp"} \subseteq DOMAIN tx
    /\ tx.timestamp.k \in {"int", "big"}

\* ProtocolData: protocolType: str, transactions: List[TransactionDetail]
ValidProtocolData(g) ==
    /\ {"protocolType", "transactions"} \subseteq DOMAIN g
    /\ \A i \in 1..Len(g.transactions) : ValidTransactionDetail(g.transactions[i])

\* WalletTransactionInput: wallet_address: str, data: List[ProtocolData]
ValidWalletTransactionInput(raw_data) ==
    /\ {"wallet_address", "data"} \subseteq DOMAIN raw_data
    /\ \A i \in 1..Len(raw_data.data) : ValidProtocolData(raw_data.data[i])

\* WalletTransactionInput(**raw_data).dict(): the model keeps the declared
\* fields of every level and nothing else
TransactionDetail(tx) ==
    [document_id |-> tx.document_id, action |-> tx.action,
     timestamp |-> tx.timestamp]

ProtocolData(g) ==
    [protocolType |-> g.protocolType,
     transactions |-> Map(TransactionDetail, g.transactions)]

WalletTransactionInput(raw_data) ==
    [wallet_address |-> raw_data.wallet_address,
     data |-> Map(ProtocolData, raw_data.data)]

\* ------------------------------------------------------- inbound messages
\* msg.value(): bytes that are a JSON document, or bytes json.loads rejects
Json(doc) == [text |-> "json", doc |-> doc]
Garbage == [text |-> "garbage"]

\* SAMPLE_WALLET_MESSAGE of test_challenge.py
SamplePool == "0x88e6a0c2ddd26feeb64f039a2c41296fcb3f5640"
SampleWallet == "0x742d35Cc6634C0532925a3b8D4C9db96590e4265"

SampleEntry(id, action, ts) ==
    [document_id |-> id, action |-> action, timestamp |-> IntTs(ts),
     protocol |-> "uniswap_v3", poolId |-> SamplePool,
     poolName |-> "Uniswap V3 USDC/WETH 0.05%"]

SAMPLE_WALLET_MESSAGE ==
    [wallet_address |-> SampleWallet,
     data |-> <<Group("dexes", <<
        SampleEntry("507f1f77bcf86cd799439011", "swap", 1703980800)
            @@ [tokenIn |-> [amountUSD |-> 1000, symbol |-> "USDC"],
                tokenOut |-> [amountUSD |-> 1000, symbol |-> "WETH"]],
        SampleEntry("507f1f77bcf86cd799439012", "deposit", 1703980900)
            @@ [token0 |-> [amountUSD |-> 500, symbol |-> "USDC"],
                token1 |-> [amountUSD |-> 500, symbol |-> "WETH"]],
        SampleEntry("507f1f77bcf86cd799439013", "withdraw", 1703981800)
            @@ [token0 |-> [amountUSD |-> 250, symbol |-> "USDC"],
                token1 |-> [amountUSD |-> 250, symbol |-> "WETH"]] >>)>>]

\* the values the input topic may deliver
Messages ==
    { Garbage,
      Json(SAMPLE_WALLET_MESSAGE),
      \* no group tagged "dexes"
      Json(Batch(<<Group("lending", <<Entry("deposit", T1, PoolA)>>)>>)),
      \* every timestamp an integer outside the datetime range
      Json(Batch(<<Group("dexes", <<Entry("deposit", BigTs, PoolA),
                                    Entry("swap", BigTs, PoolA)>>)>>)),
      \* a timestamp that is not an integer, a timestamp that is absent
      Json(Batch(<<Group("dexes", <<Entry("deposit", StrTs, PoolA)>>)>>)),
      Json(Batch(<<Group("dexes", <<EntryNoTs("swap", PoolA)>>)>>)),
      \* no action among swap, deposit, withdraw
      Json(Batch(<<Group("dexes", <<Entry("stake", T1, PoolA)>>)>>)),
      \* a deposit that is never withdrawn
      Json(Batch(<<Group("dexes", <<Entry("deposit", T2, PoolA),
                                    Entry("stake", T1, PoolB)>>)>>)) }

\* ------------------------------------------------------------------- state
Threads == 1..MaxThreads
Callers == 1..MaxCallers

VARIABLES
    is_running,      \* KafkaService.is_running
    consumer_thread, \* KafkaService.consumer_thread: a thread id, 0 for None
    processed_count, \* KafkaService.processed_count
    success_count,   \* KafkaService.success_count
    failure_count,   \* KafkaService.failure_count
    consumer,        \* the Kafka consumer: "created", "subscribed", "closed"
    success_topic,   \* records produced to the success topic, in order
    failure_topic,   \* records produced to the failure topic, in order
    delivered,       \* number of messages poll has returned so far
    nthreads,        \* number of threads created so far
    t_pc,            \* per thread: position in _processing_loop
    t_local,         \* per thread: the locals msg, wallet_address, e
    caller,          \* the application thread of main.py calling start/stop
    c_pc,            \* per concurrent caller: position in start/stop_consumer
    c_join,          \* per concurrent caller: the thread its join waits for
    sc_pc,           \* scoring engine: position inside process_wallet
    sc_wallet_data,  \* scoring engine: the batch being scored
    sc_now,          \* scoring engine: value datetime.now() returned
    sc_df,           \* scoring engine: the preprocessed frame
    sc_lp,           \* scoring engine: result of _calculate_lp_features
    sc_swap,         \* scoring engine: result of _calculate_swap_features
    sc_result        \* scoring engine: what process_wallet returned or raised

sc_vars == <<sc_pc, sc_wallet_data, sc_now, sc_df, sc_lp, sc_swap, sc_result>>

ks_vars == <<is_running, consumer_thread, processed_count, success_count,
             failure_count, consumer, success_topic, failure_topic, delivered,
             nthreads, t_pc, t_local, caller, c_pc, c_join>>

cc_vars == <<c_pc, c_join>>

vars == <<ks_vars, sc_vars>>

NotRun == Raise("not run")
NoSwap == [total_swap_volume |-> 0, num_swaps |-> 0, unique_pools_swapped |-> 0,
           avg_swap_size |-> Int2Rat(0), token_diversity |-> 0]

\* what poll returned: None, an error (msg.error() set), or a message
PollNoneResult == [kind |-> "none"]
PollErrorResult(code) == [kind |-> "error", code |-> code]
PollMessageResult(value) == [kind |-> "message", value |-> value]

NoLocals == [msg |-> PollNoneResult, wallet_address |-> "unknown", e |-> None]

\* What the application thread saw when it last requested a stop: the
\* worker's position and the records and counters at that moment.
NoSnapshot == [worker_pc |-> "unborn", records |-> 0, processed |-> 0,
               counted |-> 0, delivered |-> 0]

\* the application thread outside any call; op and effect describe the call
\* that returned last (effect: the call passed its is_running test)
IdleCaller(op, effect, snap) ==
    [pc |-> "idle", op |-> op, effect |-> effect, at_stop |-> snap]

\* KafkaService.__init__ (lines 33-37), no worker yet, caller idle
KsInit ==
    /\ is_running = FALSE
    /\ consumer_thread = 0
    /\ processed_count = 0
    /\ success_count = 0
    /\ failure_count = 0
    /\ consumer = "created"
    /\ success_topic = <<>>
    /\ failure_topic = <<>>
    /\ delivered = 0
    /\ nthreads = 0
    /\ t_pc = [t \in Threads |-> "unborn"]
    /\ t_local = [t \in Threads |-> NoLocals]
    /\ caller = IdleCaller("none", FALSE, NoSnapshot)
    /\ c_pc = [c \in Callers |-> "idle"]
    /\ c_join = [c \in Callers |-> 0]

\* the scoring engine at rest
ScIdle ==
    /\ sc_pc = "idle"
    /\ sc_wallet_data = Batch(<<>>)
    /\ sc_now = 0
    /\ sc_df = DataFrame(<<>>)
    /\ sc_lp = NotRun
    /\ sc_swap = NoSwap
    /\ sc_result = NotRun

\* ---------------------------------------- the scoring engine, step by step
ScInit ==
    /\ sc_pc = "start"
    /\ sc_wallet_data \in Batches
    /\ sc_now = 0
    /\ sc_df = DataFrame(<<>>)
    /\ sc_lp = NotRun
    /\ sc_swap = NoSwap
    /\ sc_result = NotRun

\* process_wallet step 1 (lines 183-185)
ScPreprocess ==
    /\ sc_pc = "start"
    /\ sc_df' = preprocess_dex_transactions(sc_wallet_data)
    /\ IF df_empty(sc_df')
       THEN sc_pc' = "raised" /\ sc_result' = Raise(NoValidTransactions)
       ELSE sc_pc' = "features" /\ UNCHANGED sc_result
    /\ UNCHANGED <<sc_wallet_data, sc_now, sc_lp, sc_swap>>
    /\ UNCHANGED ks_vars

\* process_wallet step 2 (lines 188-189)
ScFeatures ==
    /\ sc_pc = "features"
    /\ \E t \in Nows :
         /\ sc_now' = t
         /\ sc_lp' = calculate_lp_features(sc_df, t)
    /\ IF sc_lp'.ok
       THEN /\ sc_swap' = calculate_swap_features(sc_df)
            /\ sc_pc' = "score"
            /\ UNCHANGED sc_result
       ELSE /\ sc_pc' = "raised"
            /\ sc_result' = sc_lp'
            /\ UNCHANGED sc_swap
    /\ UNCHANGED <<sc_wallet_data, sc_df>>
    /\ UNCHANGED ks_vars

\* process_wallet steps 3-4 (lines 192-200)
ScScore ==
    /\ sc_pc = "score"
    /\ LET combined == calculate_final_score(sc_lp.val, sc_swap)
       IN  sc_result' = Ok([final_score |-> combined.final_score,
                            features |-> sanitize_features(combined.all_features)
                                         @@ [transaction_count |-> Len(sc_df.rows)]])
    /\ sc_pc' = "returned"
    /\ UNCHANGED <<sc_wallet_data, sc_now, sc_df, sc_lp, sc_swap>>
    /\ UNCHANGED ks_vars

ScNext == ScPreprocess \/ ScFeatures \/ ScScore

\* --------------------------------------------------------- kafka_service.py
ValidationErrorMsg == "validation error for WalletTransactionInput"
JSONDecodeErrorMsg == "Expecting value: line 1 column 1 (char 0)"
ProduceErrorMsg == "KafkaError: produce failed"

\* positions of a worker between receiving a message and counting it
InFlightPcs == {"try", "except", "inc_success", "inc_failure",
                "finally", "finally_exc"}
\* positions inside the while loop
LoopPcs == {"test", "poll"} \cup InFlightPcs
\* positions of a thread that has terminated
EndPcs == {"done", "crashed"}

\* lines 65-70: json.loads, WalletTransactionInput(**raw_data),
\* process_wallet(validated_data.dict()); wallet is the local wallet_address
\* as the step leaves it
deserialize_validate_score(value, current_time) ==
    IF value.text # "json"
    THEN [wallet |-> "unknown", res |-> Raise(JSONDecodeErrorMsg)]
    ELSE IF ~ValidWalletTransactionInput(value.doc)
    THEN [wallet |-> "unknown", res |-> Raise(ValidationErrorMsg)]
    ELSE LET validated_data == WalletTransactionInput(value.doc)
         IN  [wallet |-> validated_data.wallet_address,
              res |-> process_wallet(validated_data, current_time)]

\* the outcome of lines 65-70 for every message and clock reading
try_result ==
    [value \in Messages, current_time \in Nows |->
        deserialize_validate_score(value, current_time)]

\* lines 74-85; the wall-clock fields timestamp and processing_time_ms and
\* the formatted copy zscore of the score are left out
success_payload(wallet_address, r) ==
    [wallet_address |-> wallet_address,
     categories |-> <<[category |-> "dexes",
                       score |-> r.final_score,
                       transaction_count |-> r.features.transaction_count,
                       features |-> [k \in DOMAIN r.features \ {"transaction_count"}
                                        |-> r.features[k]]]>>]

\* lines 93-98, without the wall-clock fields
failure_payload(wallet_address, e) ==
    [wallet_address |-> wallet_address, error |-> e]

\* get_stats (lines 123-130)
get_stats ==
    [processed_messages |-> processed_count,
     success_count |-> success_count,
     failure_count |-> failure_count,
     is_running |-> is_running]

\* line 46: subscribe; a consumer that was closed raises RuntimeError, which
\* nothing catches
Subscribe(t) ==
    /\ t_pc[t] = "start"
    /\ IF consumer = "closed"
       THEN /\ t_pc' = [t_pc EXCEPT ![t] = "crashed"]
            /\ UNCHANGED consumer
       ELSE /\ t_pc' = [t_pc EXCEPT ![t] = "test"]
            /\ consumer' = "subscribed"
    /\ UNCHANGED <<is_running, consumer_thread, processed_count, success_count,
                   failure_count, success_topic, failure_topic, delivered,
                   nthreads, t_local, caller>>
    /\ UNCHANGED <<cc_vars, sc_vars>>

\* line 49: while self.is_running
LoopTest(t) ==
    /\ t_pc[t] = "test"
    /\ t_pc' = [t_pc EXCEPT ![t] = IF is_running THEN "poll" ELSE "close"]
    /\ UNCHANGED <<is_running, consumer_thread, processed_count, success_count,
                   failure_count, consumer, success_topic, failure_topic,
                   delivered, nthreads, t_local, caller>>
    /\ UNCHANGED <<cc_vars, sc_vars>>

\* line 50: poll on a consumer that another thread has closed raises
\* RuntimeError, which nothing in _processing_loop catches
PollClosed(t) ==
    /\ t_pc[t] = "poll"
    /\ consumer = "closed"
    /\ t_pc' = [t_pc EXCEPT ![t] = "crashed"]
    /\ UNCHANGED <<is_running, consumer_thread, processed_count, success_count,
                   failure_count, consumer, success_topic, failure_topic,
                   delivered, nthreads, t_local, caller>>
    /\ UNCHANGED <<cc_vars, sc_vars>>

\* lines 50-53: poll timed out
PollNone(t) ==
    /\ t_pc[t] = "poll"
    /\ consumer # "closed"
    /\ t_local' = [t_local EXCEPT ![t].msg = PollNoneResult]
    /\ t_pc' = [t_pc EXCEPT ![t] = "test"]
    /\ UNCHANGED <<is_running, consumer_thread, processed_count, success_count,
                   failure_count, consumer, success_topic, failure_topic,
                   delivered, nthreads, caller>>
    /\ UNCHANGED <<cc_vars, sc_vars>>

\* lines 54-59 with every poll error, _PARTITION_EOF included, taken as fatal
PollError_eof_fatal(t) ==
    /\ t_pc[t] = "poll"
    /\ consumer # "closed"
    /\ \E code \in {"_PARTITION_EOF", "_TRANSPORT"} :
         /\ t_local' = [t_local EXCEPT ![t].msg = PollErrorResult(code)]
         /\ t_pc' = [t_pc EXCEPT ![t] = "close"]
    /\ UNCHANGED <<is_running, consumer_thread, processed_count, success_count,
                   failure_count, consumer, success_topic, failure_topic,
                   delivered, nthreads, caller>>
    /\ UNCHANGED <<cc_vars, sc_vars>>

\* lines 54-59: poll returned an error; only _PARTITION_EOF continues
PollError(t) ==
    /\ t_pc[t] = "poll"
    /\ consumer # "closed"
    /\ \E code \in {"_PARTITION_EOF", "_TRANSPORT"} :
         /\ t_local' = [t_local EXCEPT ![t].msg = PollErrorResult(code)]
         /\ t_pc' = [t_pc EXCEPT ![t] =
                        IF code = "_PARTITION_EOF" THEN "test" ELSE "close"]
    /\ UNCHANGED <<is_running, consumer_thread, processed_count, success_count,
                   failure_count, consumer, success_topic, failure_topic,
                   delivered, nthreads, caller>>
    /\ UNCHANGED <<cc_vars, sc_vars>>

\* lines 50-62: poll returned a message
PollMessage(t) ==
    /\ t_pc[t] = "poll"
    /\ consumer # "closed"
    /\ delivered < MaxMsgs
    /\ \E value \in Messages :
         t_local' = [t_local EXCEPT ![t] =
                        [msg |-> PollMessageResult(value),
                         wallet_address |-> "unknown", e |-> None]]
    /\ delivered' = delivered + 1
    /\ t_pc' = [t_pc EXCEPT ![t] = "try"]
    /\ UNCHANGED <<is_running, consumer_thread, processed_count, success_count,
                   failure_count, consumer, success_topic, failure_topic,
                   nthreads, caller>>
    /\ UNCHANGED <<cc_vars, sc_vars>>

\* lines 63-86: the try body up to and including the send of the success
\* record; produce may raise, and then nothing was sent
TryBody(t) ==
    /\ t_pc[t] = "try"
    /\ \E current_time \in Nows, sent \in BOOLEAN :
         LET step == try_result[t_local[t].msg.value, current_time]
         IN  IF step.res.ok /\ sent
             THEN /\ success_topic' =
                        Append(success_topic, success_payload(step.wallet, step.res.val))
                  /\ t_local' = [t_local EXCEPT ![t].wallet_address = step.wallet]
                  /\ t_pc' = [t_pc EXCEPT ![t] = "inc_success"]
             ELSE /\ t_local' = [t_local EXCEPT
                        ![t].wallet_address = step.wallet,
                        ![t].e = IF step.res.ok THEN ProduceErrorMsg
                                 ELSE step.res.error]
                  /\ t_pc' = [t_pc EXCEPT ![t] = "except"]
                  /\ UNCHANGED success_topic
    /\ UNCHANGED <<is_running, consumer_thread, processed_count, success_count,
                   failure_count, consumer, failure_topic, delivered, nthreads,
                   caller>>
    /\ UNCHANGED <<cc_vars, sc_vars>>

\* line 87
IncSuccess(t) ==
    /\ t_pc[t] = "inc_success"
    /\ success_count' = success_count + 1
    /\ t_pc' = [t_pc EXCEPT ![t] = "finally"]
    /\ UNCHANGED <<is_running, consumer_thread, processed_count, failure_count,
                   consumer, success_topic, failure_topic, delivered, nthreads,
                   t_local, caller>>
    /\ UNCHANGED <<cc_vars, sc_vars>>

\* lines 89-99: the handler sends the failure record; when this produce
\* raises, the exception leaves the handler
ExceptHandler(t) ==
    /\ t_pc[t] = "except"
    /\ \E sent \in BOOLEAN :
         IF sent
         THEN /\ failure_topic' =
                    Append(failure_topic,
                           failure_payload(t_local[t].wallet_address, t_local[t].e))
              /\ t_pc' = [t_pc EXCEPT ![t] = "inc_failure"]
         ELSE /\ t_pc' = [t_pc EXCEPT ![t] = "finally_exc"]
              /\ UNCHANGED failure_topic
    /\ UNCHANGED <<is_running, consumer_thread, processed_count, success_count,
                   failure_count, consumer, success_topic, delivered, nthreads,
                   t_local, caller>>
    /\ UNCHANGED <<cc_vars, sc_vars>>

\* line 100
IncFailure(t) ==
    /\ t_pc[t] = "inc_failure"
    /\ failure_count' = failure_count + 1
    /\ t_pc' = [t_pc EXCEPT ![t] = "finally"]
    /\ UNCHANGED <<is_running, consumer_thread, processed_count, success_count,
                   consumer, success_topic, failure_topic, delivered, nthreads,
                   t_local, caller>>
    /\ UNCHANGED <<cc_vars, sc_vars>>

\* lines 102-103: finally; an exception in flight then ends the thread
Finally(t) ==
    /\ t_pc[t] \in {"finally", "finally_exc"}
    /\ processed_count' = processed_count + 1
    /\ t_pc' = [t_pc EXCEPT ![t] =
                   IF t_pc[t] = "finally_exc" THEN "crashed" ELSE "test"]
    /\ UNCHANGED <<is_running, consumer_thread, success_count, failure_count,
                   consumer, success_topic, failure_topic, delivered, nthreads,
                   t_local, caller>>
    /\ UNCHANGED <<cc_vars, sc_vars>>

\* lines 105-106: close; closing a closed consumer raises RuntimeError
Close(t) ==
    /\ t_pc[t] = "close"
    /\ IF consumer = "closed"
       THEN /\ t_pc' = [t_pc EXCEPT ![t] = "crashed"]
            /\ UNCHANGED consumer
       ELSE /\ t_pc' = [t_pc EXCEPT ![t] = "done"]
            /\ consumer' = "closed"
    /\ UNCHANGED <<is_running, consumer_thread, processed_count, success_count,
                   failure_count, success_topic, failure_topic, delivered,
                   nthreads, t_local, caller>>
    /\ UNCHANGED <<cc_vars, sc_vars>>

\* start_consumer without its "if not self.is_running" test
start_consumer_unguarded ==
    /\ caller.pc = "idle"
    /\ nthreads < MaxThreads
    /\ is_running' = TRUE
    /\ nthreads' = nthreads + 1
    /\ consumer_thread' = nthreads + 1
    /\ t_pc' = [t_pc EXCEPT ![nthreads + 1] = "start"]
    /\ caller' = IdleCaller("start", TRUE, caller.at_stop)
    /\ UNCHANGED <<processed_count, success_count, failure_count, consumer,
                   success_topic, failure_topic, delivered, t_local>>
    /\ UNCHANGED <<cc_vars, sc_vars>>

\* start_consumer (lines 108-114), called by the application thread
start_consumer ==
    /\ caller.pc = "idle"
    /\ is_running \/ nthreads < MaxThreads
    /\ IF ~is_running
       THEN /\ is_running' = TRUE
            /\ nthreads' = nthreads + 1
            /\ consumer_thread' = nthreads + 1
            /\ t_pc' = [t_pc EXCEPT ![nthreads + 1] = "start"]
            /\ caller' = IdleCaller("start", TRUE, caller.at_stop)
       ELSE /\ caller' = IdleCaller("start", FALSE, caller.at_stop)
            /\ UNCHANGED <<is_running, nthreads, consumer_thread, t_pc>>
    /\ UNCHANGED <<processed_count, success_count, failure_count, consumer,
                   success_topic, failure_topic, delivered, t_local>>
    /\ UNCHANGED <<cc_vars, sc_vars>>

\* stop_consumer without "self.is_running = False"
stop_consumer_keeps_flag ==
    /\ caller.pc = "idle"
    /\ IF is_running
       THEN caller' = [pc |-> "join", op |-> "stop", effect |-> TRUE,
                       at_stop |->
                         [worker_pc |-> t_pc[consumer_thread],
                          records |-> Len(success_topic) + Len(failure_topic),
                          processed |-> processed_count,
                          counted |-> success_count + failure_count,
                          delivered |-> delivered]]
       ELSE caller' = IdleCaller("stop", FALSE, caller.at_stop)
    /\ UNCHANGED <<is_running, consumer_thread, processed_count, success_count,
                   failure_count, consumer, success_topic, failure_topic,
                   delivered, nthreads, t_pc, t_local>>
    /\ UNCHANGED <<cc_vars, sc_vars>>

\* stop_consumer (lines 116-119), up to the join
stop_consumer ==
    /\ caller.pc = "idle"
    /\ IF is_running
       THEN /\ is_running' = FALSE
            /\ caller' = [pc |-> "join", op |-> "stop", effect |-> TRUE,
                          at_stop |->
                            [worker_pc |-> t_pc[consumer_thread],
                             records |-> Len(success_topic) + Len(failure_topic),
                             processed |-> processed_count,
                             counted |-> success_count + failure_count,
                             delivered |-> delivered]]
       ELSE /\ caller' = IdleCaller("stop", FALSE, caller.at_stop)
            /\ UNCHANGED is_running
    /\ UNCHANGED <<consumer_thread, processed_count, success_count,
                   failure_count, consumer, success_topic, failure_topic,
                   delivered, nthreads, t_pc, t_local>>
    /\ UNCHANGED <<cc_vars, sc_vars>>

\* stop_consumer (lines 120-121): join returns once the thread has ended
stop_consumer_join ==
    /\ caller.pc = "join"
    /\ t_pc[consumer_thread] \in EndPcs
    /\ caller' = IdleCaller("stop", TRUE, caller.at_stop)
    /\ UNCHANGED <<is_running, consumer_thread, processed_count, success_count,
                   failure_count, consumer, success_topic, failure_topic,
                   delivered, nthreads, t_pc, t_local>>
    /\ UNCHANGED <<cc_vars, sc_vars>>

Worker(t) ==
    \/ Subscribe(t)
    \/ LoopTest(t)
    \/ PollNone(t)
    \/ PollError(t)
    \/ PollMessage(t)
    \/ TryBody(t)
    \/ IncSuccess(t)
    \/ ExceptHandler(t)
    \/ IncFailure(t)
    \/ Finally(t)
    \/ Close(t)

Next ==
    \/ start_consumer
    \/ stop_consumer
    \/ stop_consumer_join
    \/ \E t \in Threads : Worker(t)

Init == KsInit /\ ScIdle

Spec == Init /\ [][Next]_vars

\* ------------------------------------------- start and stop, step by step
\* The calls of several threads interleave between any two statements.
\* threads whose creation a caller has committed to but not yet carried out
PendingThreads ==
    Cardinality({c \in Callers : c_pc[c] \in {"start_set", "start_create"}})

\* line 110: if not self.is_running
CcStartTest(c) ==
    /\ c_pc[c] = "idle"
    /\ ~is_running
    /\ nthreads + PendingThreads < MaxThreads
    /\ c_pc' = [c_pc EXCEPT ![c] = "start_set"]
    /\ UNCHANGED <<is_running, consumer_thread, processed_count, success_count,
                   failure_count, consumer, success_topic, failure_topic,
                   delivered, nthreads, t_pc, t_local, caller, c_join>>
    /\ UNCHANGED sc_vars

\* line 111: self.is_running = True
CcStartSet(c) ==
    /\ c_pc[c] = "start_set"
    /\ is_running' = TRUE
    /\ c_pc' = [c_pc EXCEPT ![c] = "start_create"]
    /\ UNCHANGED <<consumer_thread, processed_count, success_count,
                   failure_count, consumer, success_topic, failure_topic,
                   delivered, nthreads, t_pc, t_local, caller, c_join>>
    /\ UNCHANGED sc_vars

\* line 112: self.consumer_thread = threading.Thread(...)
CcStartCreate(c) ==
    /\ c_pc[c] = "start_create"
    /\ nthreads' = nthreads + 1
    /\ consumer_thread' = nthreads + 1
    /\ c_pc' = [c_pc EXCEPT ![c] = "start_start"]
    /\ UNCHANGED <<is_running, processed_count, success_count, failure_count,
                   consumer, success_topic, failure_topic, delivered, t_pc,
                   t_local, caller, c_join>>
    /\ UNCHANGED sc_vars

\* line 113: self.consumer_thread.start(); the attribute is read again, and
\* starting a thread a second time raises RuntimeError
CcStartStart(c) ==
    /\ c_pc[c] = "start_start"
    /\ IF t_pc[consumer_thread] = "unborn"
       THEN t_pc' = [t_pc EXCEPT ![consumer_thread] = "start"]
       ELSE UNCHANGED t_pc
    /\ c_pc' = [c_pc EXCEPT ![c] = "idle"]
    /\ UNCHANGED <<is_running, consumer_thread, processed_count, success_count,
                   failure_count, consumer, success_topic, failure_topic,
                   delivered, nthreads, t_local, caller, c_join>>
    /\ UNCHANGED sc_vars

\* line 118: if self.is_running
CcStopTest(c) ==
    /\ c_pc[c] = "idle"
    /\ is_running
    /\ c_pc' = [c_pc EXCEPT ![c] = "stop_clear"]
    /\ UNCHANGED <<is_running, consumer_thread, processed_count, success_count,
                   failure_count, consumer, success_topic, failure_topic,
                   delivered, nthreads, t_pc, t_local, caller, c_join>>
    /\ UNCHANGED sc_vars

\* line 119: self.is_running = False
CcStopClear(c) ==
    /\ c_pc[c] = "stop_clear"
    /\ is_running' = FALSE
    /\ c_pc' = [c_pc EXCEPT ![c] = "stop_join"]
    /\ UNCHANGED <<consumer_thread, processed_count, success_count,
                   failure_count, consumer, success_topic, failure_topic,
                   delivered, nthreads, t_pc, t_local, caller, c_join>>
    /\ UNCHANGED sc_vars

\* line 120: self.consumer_thread.join() is called; the attribute is read
\* now. None has no join (AttributeError) and joining a thread that was not
\* started raises RuntimeError: in both cases the call ends here.
CcStopJoinCall(c) ==
    /\ c_pc[c] = "stop_join"
    /\ IF consumer_thread = 0 \/ t_pc[consumer_thread] = "unborn"
       THEN /\ c_pc' = [c_pc EXCEPT ![c] = "idle"]
            /\ UNCHANGED c_join
       ELSE /\ c_pc' = [c_pc EXCEPT ![c] = "joining"]
            /\ c_join' = [c_join EXCEPT ![c] = consumer_thread]
    /\ UNCHANGED <<is_running, consumer_thread, processed_count, success_count,
                   failure_count, consumer, success_topic, failure_topic,
                   delivered, nthreads, t_pc, t_local, caller>>
    /\ UNCHANGED sc_vars

\* lines 120-121: join returns once the joined thread has ended
CcStopJoin(c) ==
    /\ c_pc[c] = "joining"
    /\ t_pc[c_join[c]] \in EndPcs
    /\ c_pc' = [c_pc EXCEPT ![c] = "idle"]
    /\ UNCHANGED <<is_running, consumer_thread, processed_count, success_count,
                   failure_count, consumer, success_topic, failure_topic,
                   delivered, nthreads, t_pc, t_local, caller, c_join>>
    /\ UNCHANGED sc_vars

ConcCaller(c) ==
    \/ CcStartTest(c)
    \/ CcStartSet(c)
    \/ CcStartCreate(c)
    \/ CcStartStart(c)
    \/ CcStopTest(c)
    \/ CcStopClear(c)
    \/ CcStopJoinCall(c)
    \/ CcStopJoin(c)

ConcWorker(t) == Worker(t) \/ PollClosed(t)

NextConc ==
    \/ \E c \in Callers : ConcCaller(c)
    \/ \E t \in Threads : ConcWorker(t)

SpecConc == Init /\ [][NextConc]_vars

\* Every thread that can take a step is scheduled, poll returns within its
\* timeout, and join returns once the joined thread has ended.
Fairness ==
    /\ \A t \in Threads : WF_vars(Worker(t))
    /\ WF_vars(stop_consumer_join)

FairSpec == Init /\ [][Next]_vars /\ Fairness

InitScore == KsInit /\ ScInit

SpecScore == InitScore /\ [][ScNext]_vars

\* the staged run and process_wallet agree
ScAgree ==
    sc_pc \in {"raised", "returned"}
        => sc_result = process_wallet(sc_wallet_data, sc_now)

\* ------------------------------------------------------------------ claims
NoMessageInFlight == \A t \in Threads : t_pc[t] \notin InFlightPcs

Records == Len(success_topic) + Len(failure_topic)

\* C1: every message poll has returned has exactly one outcome record, a
\* success record or a failure record, once no worker is handling a message.
C1_ExactlyOneOutcome ==
    NoMessageInFlight => Records = delivered

\* C2: a worker leaves the while loop only from the loop test with the flag
\* cleared (stop was requested) or from a poll that reported a fatal
\* transport error; no failure while handling a message ends the loop.
C2_LoopLeftOnlyByStopOrFatal ==
    [][\A t \in Threads :
          (t_pc[t] \in LoopPcs /\ t_pc'[t] \notin LoopPcs)
              => \/ t_pc[t] = "test" /\ ~is_running
                 \/ /\ t_pc[t] = "poll"
                    /\ t_local'[t].msg.kind = "error"
                    /\ t_local'[t].msg.code = "_TRANSPORT"]_vars

\* C3: between messages the processed counter equals the sum of the success
\* and the failure counter and the number of messages received, the success
\* counter counts the success records and the failure counter the failure
\* records.
C3_CountersAgree ==
    NoMessageInFlight =>
        /\ processed_count = success_count + failure_count
        /\ processed_count = delivered
        /\ success_count = Len(success_topic)
        /\ failure_count = Len(failure_topic)

\* C4: once a worker has left the loop because poll reported a transport
\* error other than end-of-partition, the stats query reports the processor
\* as not running.
C4_FatalErrorStops ==
    \A t \in Threads :
        (/\ t_pc[t] \in {"close", "done"}
         /\ t_local[t].msg.kind = "error"
         /\ t_local[t].msg.code = "_TRANSPORT")
            => ~get_stats.is_running

\* C5: every score the engine returns has its LP sub-score in [0, 700], its
\* swap sub-score in [0, 600] and its final score in [0, 660].
C5_ScoreInRange ==
    sc_pc = "returned" =>
        /\ RLe(Int2Rat(0), lp_score(sc_lp.val))
        /\ RLe(lp_score(sc_lp.val), Int2Rat(700))
        /\ RLe(Int2Rat(0), swap_score(sc_swap))
        /\ RLe(swap_score(sc_swap), Int2Rat(600))
        /\ RLe(Int2Rat(0), sc_result.val.final_score)
        /\ RLe(sc_result.val.final_score, Int2Rat(660))

\* the entries of the groups tagged "dexes" whose timestamp is a valid Unix
\* second count
RECURSIVE RetainedEntries(_)
RetainedEntries(groups) ==
    IF groups = <<>> THEN <<>>
    ELSE LET g == Head(groups)
             Valid(tx) == "timestamp" \in DOMAIN tx /\ tx.timestamp.k = "int"
         IN  (IF g.protocolType = "dexes"
              THEN SelectSeq(g.transactions, Valid) ELSE <<>>)
             \o RetainedEntries(Tail(groups))

\* a JSON message whose batch has no "dexes" group or only unparsable
\* timestamps
NothingRetained(value) ==
    /\ value.text = "json"
    /\ RetainedEntries(value.doc.data) = <<>>

\* C6: when a worker is done with the try block and the handler for a
\* message whose batch retains no transaction, it has appended a failure
\* record carrying the "no valid transactions" error and no success record.
C6_EmptyBatchFails ==
    [][\A t \in Threads :
          (/\ t_pc[t] \in {"try", "except"}
           /\ t_pc'[t] \notin {"try", "except"}
           /\ NothingRetained(t_local[t].msg.value))
              => /\ success_topic' = success_topic
                 /\ Len(failure_topic') = Len(failure_topic) + 1
                 /\ failure_topic'[Len(failure_topic')].error = NoValidTransactions]_vars

CountersUnchanged ==
    UNCHANGED <<processed_count, success_count, failure_count>>

\* C7: start on a running processor and stop on a stopped processor change
\* nothing: the flag, the worker thread, the threads and the counters stay
\* as they are and nothing is joined; start on a stopped processor makes it
\* running and stop on a running processor clears the flag.
C7_StartStopLifecycle ==
    [][/\ (start_consumer /\ is_running)
            => /\ is_running'
               /\ UNCHANGED <<consumer_thread, nthreads, t_pc>>
               /\ CountersUnchanged
       /\ (start_consumer /\ ~is_running)
            => /\ is_running'
               /\ nthreads' = nthreads + 1
               /\ CountersUnchanged
       /\ (stop_consumer /\ ~is_running)
            => /\ ~is_running'
               /\ caller'.pc = "idle"
               /\ UNCHANGED <<consumer_thread, nthreads, t_pc>>
               /\ CountersUnchanged
       /\ (stop_consumer /\ is_running)
            => /\ ~is_running'
               /\ caller'.pc = "join"
               /\ CountersUnchanged]_vars

\* a start call on a running processor that has processed messages has
\* returned
C7_Witness ==
    /\ caller.pc = "idle"
    /\ caller.op = "start"
    /\ ~caller.effect
    /\ is_running
    /\ nthreads = 1
    /\ processed_count > 0

\* C8: when a stop call that found the processor running has returned, the
\* worker has left the loop, and the message the worker was handling when
\* the stop was requested has its record emitted and its counters
\* incremented.
C8_StopWaitsForInFlight ==
    (caller.pc = "idle" /\ caller.op = "stop" /\ caller.effect) =>
        /\ t_pc[consumer_thread] \notin LoopPcs
        /\ caller.at_stop.worker_pc \in {"try", "except", "finally_exc"}
              => Records >= caller.at_stop.records + 1
        /\ caller.at_stop.worker_pc \in InFlightPcs \ {"finally"}
              => success_count + failure_count >= caller.at_stop.counted + 1
        /\ caller.at_stop.worker_pc \in InFlightPcs
              => processed_count >= caller.at_stop.processed + 1

\* C9: every success record emitted for the sample message of the test
\* carries total_swap_volume = 1000, num_deposits = 1, num_withdraws = 1,
\* num_swaps = 1 and unique_pools = 1.
C9_SampleFeatures ==
    \A i \in 1..Len(success_topic) :
        success_topic[i].wallet_address = SampleWallet =>
            LET f == success_topic[i].categories[1].features
            IN  /\ f.total_swap_volume = 1000
                /\ f.num_deposits = 1
                /\ f.num_withdraws = 1
                /\ f.num_swaps = 1
                /\ f.unique_pools = 1

\* the batch without its entries whose action is not swap, deposit, withdraw
WithoutOtherActions(wallet_data) ==
    LET Known(tx) == Get(tx, "action", None) \in {"swap", "deposit", "withdraw"}
        Strip(g) == Group(g.protocolType, SelectSeq(g.transactions, Known))
    IN  Batch(Map(Strip, wallet_data.data))

\* C10: a batch with at least one retained transaction is scored without
\* failure, its transaction_count is the number of retained transactions,
\* and its deposit, withdraw and swap totals and counts are those of the
\* batch without the entries of other actions.
C10_OtherActionsScored ==
    (sc_pc \in {"raised", "returned"}
     /\ RetainedEntries(sc_wallet_data.data) # <<>>) =>
        /\ sc_result.ok
        /\ sc_result.val.features.transaction_count
              = Len(RetainedEntries(sc_wallet_data.data))
        /\ LET f == sc_result.val.features
               rest == preprocess_dex_transactions(WithoutOtherActions(sc_wallet_data))
               dep == ByAction(rest, "deposit")
               wdr == ByAction(rest, "withdraw")
               swp == ByAction(rest, "swap")
           IN  /\ f.total_deposit_usd = AmountSum(dep)
               /\ f.num_deposits = Len(dep.rows)
               /\ f.total_withdraw_usd = AmountSum(wdr)
               /\ f.num_withdraws = Len(wdr.rows)
               /\ f.total_swap_volume = AmountSum(swp)
               /\ f.num_swaps = Len(swp.rows)

\* the timestamps, in seconds, of the retained entries of a batch that have
\* the given action
RetainedTimes(wallet_data, action) ==
    LET Is(tx) == tx.action = action
        es == SelectSeq(RetainedEntries(wallet_data.data), Is)
    IN  [i \in 1..Len(es) |-> es[i].timestamp.v]

\* seconds a deposit made at d is held: up to the earliest withdraw strictly
\* after d, or up to now when there is none
HeldSeconds(d, withdraw_times, now) ==
    IF \E w \in withdraw_times : w > d
    THEN (CHOOSE w \in withdraw_times :
              w > d /\ \A x \in withdraw_times : x > d => w <= x) - d
    ELSE now - d

C13_IdlePollUnchanged ==
    [][\A t \in Threads :
          (\/ PollNone(t)
           \/ PollError(t) /\ t_local'[t].msg.code = "_PARTITION_EOF")
              => /\ UNCHANGED <<is_running, processed_count, success_count,
                               failure_count, success_topic, failure_topic>>
                 /\ t_pc'[t] = "test"]_vars

\* a running worker that has processed a message is back at the loop test
\* after poll returned the end-of-partition signal
C13_Witness ==
    \E t \in Threads :
        /\ t_pc[t] = "test"
        /\ t_local[t].msg.kind = "error"
        /\ t_local[t].msg.code = "_PARTITION_EOF"
        /\ is_running
        /\ processed_count > 0

\* the threads that are inside the while loop
WorkersInLoop == {t \in Threads : t_pc[t] \in LoopPcs}

\* C15: while a single worker runs, a stats query sees the sum of the
\* success and the failure counter at the processed counter or one ahead of
\* it, never behind it.
C15_SnapshotBounds ==
    Cardinality(WorkersInLoop) = 1 =>
        /\ get_stats.processed_messages
              <= get_stats.success_count + get_stats.failure_count
        /\ get_stats.success_count + get_stats.failure_count
              <= get_stats.processed_messages + 1

\* a stop call found the processor running, cleared the flag and waits in join
StopRequested == caller.pc = "join"

\* ... and the worker was inside the loop at that moment
StopRequestedInLoop ==
    StopRequested /\ caller.at_stop.worker_pc \in LoopPcs

\* that stop call has returned, the worker thread has ended and the consumer
\* is closed
StopReturned ==
    /\ caller.pc = "idle" /\ caller.op = "stop" /\ caller.effect
    /\ t_pc[consumer_thread] \in EndPcs
    /\ consumer = "closed"

\* ... and the worker left the loop by its normal exit
StopCompleted ==
    StopReturned /\ t_pc[consumer_thread] = "done"

\* a send of a failure record has raised instead of returning
FailureSendRaised ==
    \E t \in Threads :
        \/ t_pc[t] = "finally_exc"
        \/ t_pc[t] = "crashed" /\ t_local[t].e # None

WorkersInFlight == {t \in Threads : t_pc[t] \in InFlightPcs}

\* C11: at any time at most one worker thread is inside the processing loop
\* and at most one message has been received but not yet counted, whatever
\* the interleaving of concurrent start and stop calls with the worker.
C11_SingleWorker ==
    /\ Cardinality(WorkersInLoop) <= 1
    /\ Cardinality(WorkersInFlight) <= 1

====
